---- MODULE Spec2Model ----
(***************************************************************************)
(* Model of the API caching client of finance-dashboard (src/client.py):   *)
(* the SQLite-backed cache store (_init_cache, cache_get, cache_set), the  *)
(* parameter fingerprint (_params_hash), the retrying HTTP session         *)
(* (_build_session), the cached fetch orchestrator (_cached_api_call) and  *)
(* the public fetch operations (get_company_overview,                      *)
(* get_income_statement), run by several concurrent callers against one    *)
(* store and one wall clock, in a process that can be restarted.           *)
(***************************************************************************)
EXTENDS Integers, Sequences, FiniteSets, TLC

(***************************************************************************)
(* Bounds of the model.                                                    *)
(***************************************************************************)
\* number of clock advances explored
MaxTicks == 1
\* number of consecutive failed attempts the provider can put before an answer
MaxFailures == 4

\* the callers of _cached_api_call: each makes one call, so the two fetches
\* run one after the other, in either order, or overlap
Procs == {"t1", "t2"}

(***************************************************************************)
(* Python values.                                                          *)
(***************************************************************************)
\* Python's None, as an optional record
None == [isNone |-> TRUE]

\* a dict given as params_extra: its items in insertion order, each item
\* <<key, value>>; a key is a string (a sequence of characters), a value is
\* a typed scalar [type, text] whose str() is text
Dict(items) == [isNone |-> FALSE, items |-> items]

StrVal(s) == [type |-> "str", text |-> s]
IntVal(s) == [type |-> "int", text |-> s]

\* str(v) as used by the f-string in _params_hash
PyStr(v) == v.text

\* code points of the characters that occur in the model's strings
Ord(c) ==
  CASE c = "1" -> 49
    [] c = "2" -> 50
    [] c = "=" -> 61
    [] c = "_" -> 95
    [] c = "a" -> 97
    [] c = "b" -> 98
    [] c = "|" -> 124

\* Python's str.__lt__: lexicographic by code point, a proper prefix first
RECURSIVE StrLess(_, _)
StrLess(x, y) ==
  IF y = <<>> THEN FALSE
  ELSE IF x = <<>> THEN TRUE
  ELSE IF Ord(Head(x)) # Ord(Head(y)) THEN Ord(Head(x)) < Ord(Head(y))
  ELSE StrLess(Tail(x), Tail(y))

\* insert an item into a list sorted by key, after the items not greater
RECURSIVE InsertSorted(_, _)
InsertSorted(it, s) ==
  IF s = <<>> THEN <<it>>
  ELSE IF StrLess(it[1], Head(s)[1]) THEN <<it>> \o s
  ELSE <<Head(s)>> \o InsertSorted(it, Tail(s))

\* Sorted that leaves the items in insertion order
Sorted_unsorted(items) == items

\* sorted(params.items()): a dict's keys are distinct, so the order is by key
RECURSIVE Sorted(_)
Sorted(items) ==
  IF items = <<>> THEN <<>>
  ELSE InsertSorted(items[Len(items)], Sorted(SubSeq(items, 1, Len(items) - 1)))

\* "|".join(parts)
RECURSIVE Join(_)
Join(parts) ==
  IF parts = <<>> THEN <<>>
  ELSE IF Len(parts) = 1 THEN parts[1]
  ELSE parts[1] \o <<"|">> \o Join(Tail(parts))

\* _params_hash with the empty string as the fingerprint of no parameters
_params_hash_blank(params) ==
  LET items == Sorted(params)
  IN  Join([i \in 1..Len(items) |-> items[i][1] \o <<"=">> \o PyStr(items[i][2])])

\* _params_hash(params)
_params_hash(params) ==
  LET items == Sorted(params)
  IN  IF items = <<>> THEN <<"_">>
      ELSE Join([i \in 1..Len(items) |-> items[i][1] \o <<"=">> \o PyStr(items[i][2])])

\* params_extra or {}
OrEmpty(params_extra) == IF params_extra.isNone THEN <<>> ELSE params_extra.items

(***************************************************************************)
(* JSON documents and their text.                                          *)
(***************************************************************************)
\* A decoded JSON object is the sequence of its <<name, value>> members in
\* document order; names and values are strings.  Its text is a sequence of
\* tokens <<kind, text>>.
LBrace == <<"punct", "{">>
RBrace == <<"punct", "}">>
Colon == <<"punct", ":">>
Comma == <<"punct", ",">>
StrTok(s) == <<"str", s>>

RECURSIVE DumpMembers(_)
DumpMembers(doc) ==
  IF doc = <<>> THEN <<>>
  ELSE <<StrTok(doc[1][1]), Colon, StrTok(doc[1][2])>>
       \o (IF Len(doc) = 1 THEN <<>> ELSE <<Comma>> \o DumpMembers(Tail(doc)))

\* json.dumps(payload)
json_dumps(doc) == <<LBrace>> \o DumpMembers(doc) \o <<RBrace>>

\* the outcome of a failed decode
JSONDecodeError == [isNone |-> FALSE, error |-> "JSONDecodeError"]

\* a later member of the same name replaces the value and keeps the place
RECURSIVE PutMember(_, _, _)
PutMember(doc, k, v) ==
  IF doc = <<>> THEN <<<<k, v>>>>
  ELSE IF Head(doc)[1] = k THEN <<<<k, v>>>> \o Tail(doc)
  ELSE <<Head(doc)>> \o PutMember(Tail(doc), k, v)

\* members of an object's text between the braces, added to acc
RECURSIVE ParseMembers(_, _)
ParseMembers(toks, acc) ==
  IF Len(toks) < 3 THEN JSONDecodeError
  ELSE IF ~(toks[1][1] = "str" /\ toks[2] = Colon /\ toks[3][1] = "str")
       THEN JSONDecodeError
  ELSE LET next == PutMember(acc, toks[1][2], toks[3][2])
       IN  IF Len(toks) = 3 THEN [isNone |-> FALSE, doc |-> next]
           ELSE IF toks[4] # Comma THEN JSONDecodeError
           ELSE ParseMembers(SubSeq(toks, 5, Len(toks)), next)

\* json.loads(text): the document, or JSONDecodeError
json_loads(text) ==
  IF Len(text) < 2 \/ text[1] # LBrace \/ text[Len(text)] # RBrace
  THEN JSONDecodeError
  ELSE IF Len(text) = 2 THEN [isNone |-> FALSE, doc |-> <<>>]
  ELSE ParseMembers(SubSeq(text, 2, Len(text) - 1), <<>>)

(***************************************************************************)
(* Configuration of the client.                                            *)
(***************************************************************************)
\* TTL_BY_FUNCTION
TTL_BY_FUNCTION ==
  [f \in {"OVERVIEW", "INCOME_STATEMENT"} |-> 24 * 3600]

\* TtlOf with an hour as the default
TtlOf_hour(function) ==
  IF function \in DOMAIN TTL_BY_FUNCTION THEN TTL_BY_FUNCTION[function]
  ELSE 3600

\* TTL_BY_FUNCTION.get(function, 24 * 3600)
TtlOf(function) ==
  IF function \in DOMAIN TTL_BY_FUNCTION THEN TTL_BY_FUNCTION[function]
  ELSE 24 * 3600

\* Retry(total=3): the number of retries urllib3 allows after the first try
RetryTotal == 3

\* Retry(status_forcelist=[429, 500, 502, 503, 504])
status_forcelist == {429, 500, 502, 503, 504}

\* the marker keys of _is_limit_or_error, in the order the message is read
Markers == <<"Information", "Note", "Error Message">>

(***************************************************************************)
(* Inputs explored.                                                        *)
(***************************************************************************)
\* one extra parameter, a=1
ParamA == Dict(<<<<(<<"a">>), StrVal(<<"1">>)>>>>)

Call(function, symbol, params_extra, allow) ==
  [function |-> function, symbol |-> symbol, params_extra |-> params_extra,
   allow_stale_on_limit |-> allow]

\* the calls made: one key with and without the stale fallback, and the keys
\* that differ from it in the function (one without a TTL entry), in the
\* symbol (both of app.py's SYMBOLS) or in the extra parameters
Calls ==
  {Call("INCOME_STATEMENT", "TEL", None, TRUE),
   Call("INCOME_STATEMENT", "TEL", None, FALSE),
   Call("EARNINGS", "TEL", None, TRUE),
   Call("INCOME_STATEMENT", "ST", None, TRUE),
   Call("INCOME_STATEMENT", "TEL", ParamA, TRUE)}

\* the symbols the public fetch operations are called with, two of app.py's
Symbols == {"TEL", "ST"}

\* MOCK_OVERVIEW: a list of five records, one per vendor, each shortened here
\* to its Symbol and Name
MOCK_OVERVIEW ==
  <<<<(<<"Symbol", "TEL">>), <<"Name", "TE Connectivity Ltd.">>>>,
    <<(<<"Symbol", "ST">>), <<"Name", "Sensata Technologies Holding plc">>>>,
    <<(<<"Symbol", "DD">>), <<"Name", "DuPont de Nemours, Inc.">>>>,
    <<(<<"Symbol", "CE">>), <<"Name", "Celanese Corporation">>>>,
    <<(<<"Symbol", "LYB">>), <<"Name", "LyondellBasell Industries N.V.">>>>>>

\* provider documents
DocA == <<<<"Symbol", "TEL">>, <<"Name", "TE Connectivity">>>>
DocB == <<<<"Symbol", "TEL">>, <<"Name", "TE Connectivity Ltd.">>>>
SoftNote == <<<<"Note", "rate limit reached">>>>
SoftBlank == <<<<"Information", "">>>>
SoftTwo ==
  <<<<"Error Message", "invalid call">>, <<"Note", "">>,
    <<"Information", "premium only">>>>
\* a body that is not JSON: cut off after the first name
Garbled == <<LBrace, StrTok("Symbol")>>

\* what one HTTP attempt can meet: no connection, or a status with a body
ConnError == [kind |-> "conn_error", status |-> 0, body |-> <<>>]
Status(st) == [kind |-> "http", status |-> st, body |-> <<>>]
Ok(body) == [kind |-> "http", status |-> 200, body |-> body]

\* the failures a provider in trouble answers with
Failures == {ConnError, Status(503)}

\* the documents the provider sends as data, and as its own errors
DataDocs == {DocA, DocB}
SoftDocs == {SoftNote, SoftBlank, SoftTwo}

\* the answers that end a request
Answers ==
  {Status(404), Ok(Garbled)}
  \cup {Ok(json_dumps(d)) : d \in DataDocs \cup SoftDocs}

\* what the attempts of one request meet, in order: k failures, then an answer
Attempts(k, failure, answer) == [i \in 1..k |-> failure] \o <<answer>>

\* the providers met: one that answers at once, and one that fails up to
\* MaxFailures times in a row before it answers with data
Providers ==
  {<<a>> : a \in Answers}
  \cup {Attempts(k, f, Ok(json_dumps(DocA))) : k \in 1..MaxFailures, f \in Failures}
  \cup {Attempts(1, Status(404), Ok(json_dumps(DocA)))}

\* the seconds the wall clock can jump between two steps: a second, or a
\* second less than the TTL.  The clock starts at 1, so a row written at 0
\* is then exactly one TTL old and a row written at 1 a second younger.
TickDeltas == {1, 24 * 3600 - 1}

(***************************************************************************)
(* The cache store: the rows of table api_cache.                           *)
(***************************************************************************)
Row(function, symbol, ph, response, timestamp) ==
  [function |-> function, symbol |-> symbol, params_hash |-> ph,
   response |-> response, timestamp |-> timestamp]

\* Matching with the symbol missing from the WHERE clause and from the key
Matching_anysymbol(rows, function, symbol, ph) ==
  {r \in rows : r.function = function /\ r.params_hash = ph}

\* WHERE function=? AND symbol=? AND params_hash=?
Matching(rows, function, symbol, ph) ==
  {r \in rows : r.function = function /\ r.symbol = symbol /\ r.params_hash = ph}

\* cache_get that hands out an empty payload for a row that does not decode
cache_get_lenient(rows, function, symbol, params_extra) ==
  LET ph == _params_hash(OrEmpty(params_extra))
      found == Matching(rows, function, symbol, ph)
  IN  IF found = {} THEN None
      ELSE LET row == CHOOSE r \in found : TRUE
               dec == json_loads(row.response)
           IN  IF dec = JSONDecodeError
               THEN [isNone |-> FALSE, data |-> <<>>, ts |-> row.timestamp]
               ELSE [isNone |-> FALSE, data |-> dec.doc, ts |-> row.timestamp]

\* cache_get on the rows: None, or {"data": ..., "ts": ...}
cache_get(rows, function, symbol, params_extra) ==
  LET ph == _params_hash(OrEmpty(params_extra))
      found == Matching(rows, function, symbol, ph)
  IN  IF found = {} THEN None
      ELSE LET row == CHOOSE r \in found : TRUE
               dec == json_loads(row.response)
           IN  IF dec = JSONDecodeError THEN None
               ELSE [isNone |-> FALSE, data |-> dec.doc, ts |-> row.timestamp]

\* Replace without the primary key: the row is added, nothing is deleted
Replace_insert(rows, row) == rows \cup {row}

\* Replace with a DELETE that has lost its WHERE clause
Replace_truncate(rows, row) == {row}

\* REPLACE INTO api_cache: the rows that conflict on the primary key are
\* deleted, then the new row is inserted
Replace(rows, row) ==
  (rows \ Matching(rows, row.function, row.symbol, row.params_hash)) \cup {row}

\* cache_set with INSERT OR IGNORE in place of REPLACE: a key that has a row
\* keeps it
cache_set_ignore(rows, function, symbol, params_extra, payload, timestamp) ==
  IF Matching(rows, function, symbol, _params_hash(OrEmpty(params_extra))) # {}
  THEN rows
  ELSE rows \cup {Row(function, symbol, _params_hash(OrEmpty(params_extra)),
                      json_dumps(payload), timestamp)}

\* the rows cache_set leaves, with the timestamp it read from the clock
cache_set(rows, function, symbol, params_extra, payload, timestamp) ==
  Replace(rows, Row(function, symbol, _params_hash(OrEmpty(params_extra)),
                    json_dumps(payload), timestamp))

\* _is_limit_or_error with "Information" missing from its list
_is_limit_or_error_short(payload) ==
  \E j \in 1..Len(payload) : payload[j][1] \in {"Note", "Error Message"}

\* _is_limit_or_error that asks for a marker's value, not for its presence
_is_limit_or_error_truthy(payload) ==
  \E j \in 1..Len(payload) :
    /\ payload[j][1] \in {"Information", "Note", "Error Message"}
    /\ payload[j][2] # ""

\* _is_limit_or_error(payload)
_is_limit_or_error(payload) ==
  \E i \in 1..Len(Markers) : \E j \in 1..Len(payload) : payload[j][1] = Markers[i]

\* data.get(key): the member's value, or "" (falsy, as None is) when absent
DictGet(payload, key) ==
  IF \E j \in 1..Len(payload) : payload[j][1] = key
  THEN payload[CHOOSE j \in 1..Len(payload) : payload[j][1] = key][2]
  ELSE ""

\* ErrorText that takes the first non-empty marker in the order of the
\* document, not of the marker list
ErrorText_docorder(data) ==
  LET idx == {j \in 1..Len(data) :
                /\ data[j][1] \in {"Information", "Note", "Error Message"}
                /\ data[j][2] # ""}
  IN  IF idx = {} THEN "Unknown API error"
      ELSE data[CHOOSE j \in idx : \A k \in idx : j <= k][2]

\* data.get("Information") or data.get("Note") or data.get("Error Message")
\* or "Unknown API error"
ErrorText(data) ==
  IF DictGet(data, "Information") # "" THEN DictGet(data, "Information")
  ELSE IF DictGet(data, "Note") # "" THEN DictGet(data, "Note")
  ELSE IF DictGet(data, "Error Message") # "" THEN DictGet(data, "Error Message")
  ELSE "Unknown API error"

\* IsFresh with the comparison the wrong way round
IsFresh_reversed(cached, now, ttl) == ~cached.isNone /\ now - cached.ts >= ttl

\* cached and (now - cached["ts"] < ttl)
IsFresh(cached, now, ttl) == ~cached.isNone /\ now - cached.ts < ttl

(***************************************************************************)
(* State.                                                                  *)
(***************************************************************************)
VARIABLES
  store,     \* the rows of api_cache
  clock,     \* int(time.time())
  ticks,     \* clock advances so far
  pc,        \* where each caller is in _cached_api_call
  args,      \* each caller's arguments
  cached,    \* each caller's local `cached`
  now,       \* each caller's local `now`
  data,      \* each caller's local `data`
  ts,        \* the timestamp cache_set has read for its row
  sent,      \* the request sent last: its attempts and what came back
  retries,   \* Retry.total of each caller's request: the retries it has left
  last       \* what happened last: the fetch that ended, with its call and
             \* what the caller got, or the restart of the process

vars == <<store, clock, ticks, pc, args, cached, now, data, ts,
          sent, retries, last>>

NoArgs == Call("", "", None, TRUE)

\* what a caller gets: outcome is "fresh", "stale" or "refreshed" with the
\* payload returned, or the exception raised with its message
Result(call, outcome, payload, msg) ==
  [call |-> call, outcome |-> outcome, ret |-> payload, err |-> msg]

NoResult == Result(NoArgs, "none", <<>>, "")

\* the process has been started again and no fetch has ended since
Restarted == Result(NoArgs, "restarted", <<>>, "")

\* no request sent yet
NoRequest == [exc |-> "", resp |-> Status(0), attempts |-> 0]

\* the rows of a call's key
KeyRows(rows, a) ==
  Matching(rows, a.function, a.symbol, _params_hash(OrEmpty(a.params_extra)))

\* a database file: whether table api_cache exists, and its rows
Database(table, rows) == [table |-> table, rows |-> rows]

\* _init_cache that drops the table before it creates it
_init_cache_recreate(db) == Database(TRUE, {})

\* _init_cache(): CREATE TABLE IF NOT EXISTS api_cache
_init_cache(db) == IF db.table THEN db ELSE Database(TRUE, {})

\* the database file found at the first start: none yet, or one holding a
\* row written by an earlier run a second ago, or a row whose text no longer
\* decodes
InitFiles ==
  {Database(FALSE, {}),
   Database(TRUE, {Row("INCOME_STATEMENT", "TEL", <<"_">>, json_dumps(DocA), 0)}),
   Database(TRUE, {Row("INCOME_STATEMENT", "TEL", <<"_">>, Garbled, 0)})}

\* the rows of api_cache once the module is imported
InitStores == {_init_cache(db).rows : db \in InitFiles}

Init ==
  /\ store \in InitStores
  /\ clock = 1
  /\ ticks = 0
  /\ pc = [p \in Procs |-> "idle"]
  /\ args = [p \in Procs |-> NoArgs]
  /\ cached = [p \in Procs |-> None]
  /\ now = [p \in Procs |-> 0]
  /\ sent = NoRequest
  /\ retries = [p \in Procs |-> RetryTotal]
  /\ data = [p \in Procs |-> <<>>]
  /\ ts = [p \in Procs |-> 0]
  /\ last = NoResult

(***************************************************************************)
(* _cached_api_call, step by step.                                         *)
(***************************************************************************)
\* the call, up to and including cache_get
Begin(p, call) ==
  /\ pc[p] = "idle"
  /\ args' = [args EXCEPT ![p] = call]
  /\ cached' = [cached EXCEPT ![p] =
                  cache_get(store, call.function, call.symbol, call.params_extra)]
  /\ pc' = [pc EXCEPT ![p] = "now"]
  /\ sent' = NoRequest
  /\ last' = NoResult
  /\ UNCHANGED <<store, clock, ticks, now, data, ts, retries>>

\* get_income_statement(symbol)
get_income_statement(p, symbol) ==
  Begin(p, Call("INCOME_STATEMENT", symbol, None, TRUE))

\* get_company_overview(symbol): the list MOCK_OVERVIEW, whatever the symbol;
\* the cache is not read and no request is sent
get_company_overview(p, symbol) ==
  /\ pc[p] = "idle"
  /\ pc' = [pc EXCEPT ![p] = "done"]
  /\ last' = [call |-> Call("OVERVIEW", symbol, None, TRUE), outcome |-> "mock",
              ret |-> MOCK_OVERVIEW, err |-> ""]
  /\ sent' = NoRequest
  /\ UNCHANGED <<store, clock, ticks, args, cached, now, data, ts, retries>>

\* the call ends: its frame is gone and the caller has the result
End(p, outcome, payload, msg) ==
  /\ pc' = [pc EXCEPT ![p] = "done"]
  /\ last' = Result(args[p], outcome, payload, msg)
  /\ args' = [args EXCEPT ![p] = NoArgs]
  /\ cached' = [cached EXCEPT ![p] = None]
  /\ now' = [now EXCEPT ![p] = 0]
  /\ data' = [data EXCEPT ![p] = <<>>]
  /\ ts' = [ts EXCEPT ![p] = 0]

\* return payload
Return(p, how, payload) == End(p, how, payload, "")

\* Raise that serves the cached payload, when there is one, instead
Raise_fallback(p, exc, msg) ==
  IF ~cached[p].isNone THEN Return(p, "stale", cached[p].data)
  ELSE End(p, exc, <<>>, msg)

\* raise exc(msg)
Raise(p, exc, msg) == End(p, exc, <<>>, msg)

\* now = int(time.time()); serve the cached payload if within its TTL
CheckFresh(p) ==
  /\ pc[p] = "now"
  /\ IF IsFresh(cached[p], clock, TtlOf(args[p].function))
     THEN Return(p, "fresh", cached[p].data)
     ELSE /\ now' = [now EXCEPT ![p] = clock]
          /\ pc' = [pc EXCEPT ![p] = "http"]
          /\ UNCHANGED <<args, cached, data, ts, last>>
  /\ UNCHANGED <<store, clock, ticks, sent, retries>>

\* an attempt that urllib3 retries: a connection failure, or a status of
\* status_forcelist
Retryable(resp) ==
  resp.kind = "conn_error" \/ resp.status \in status_forcelist

\* SESSION.get under Retry(total): the attempts meet resps in order, n have
\* been made.  A retryable attempt takes one from total (Retry.increment)
\* and the request is given up once total is below zero; any other response
\* is handed back.
RECURSIVE Urlopen(_, _, _)
Urlopen(resps, total, n) ==
  LET resp == Head(resps)
  IN  IF Retryable(resp)
      THEN IF total - 1 < 0
           THEN [exc |-> IF resp.kind = "conn_error" THEN "ConnectionError"
                         ELSE "RetryError",
                 resp |-> resp, attempts |-> n + 1]
           ELSE Urlopen(Tail(resps), total - 1, n + 1)
      ELSE [exc |-> "", resp |-> resp, attempts |-> n + 1]

\* SessionGet that allows one retry more
SessionGet_extra(resps) == Urlopen(resps, RetryTotal + 1, 0)

\* SESSION.get(BASE_URL, params=params, timeout=30)
SessionGet(resps) == Urlopen(resps, RetryTotal, 0)

\* Classify that never falls back to the cached payload
Classify_nofallback(p, body) ==
  IF _is_limit_or_error(body)
  THEN Raise(p, "RuntimeError", ErrorText(body))
  ELSE /\ data' = [data EXCEPT ![p] = body]
       /\ pc' = [pc EXCEPT ![p] = "cache_set"]
       /\ UNCHANGED <<args, cached, now, ts, last>>

\* Classify that looks for a cached payload before it looks at the body
Classify_stalefirst(p, body) ==
  IF ~cached[p].isNone /\ args[p].allow_stale_on_limit
  THEN Return(p, "stale", cached[p].data)
  ELSE IF _is_limit_or_error(body)
  THEN Raise(p, "RuntimeError", ErrorText(body))
  ELSE /\ data' = [data EXCEPT ![p] = body]
       /\ pc' = [pc EXCEPT ![p] = "cache_set"]
       /\ UNCHANGED <<args, cached, now, ts, last>>

\* lines 119-130 on the decoded body: a provider error ends the fetch with
\* the stale payload or a RuntimeError, anything else goes on to cache_set
Classify(p, body) ==
  IF _is_limit_or_error(body)
  THEN IF ~cached[p].isNone /\ args[p].allow_stale_on_limit
       THEN Return(p, "stale", cached[p].data)
       ELSE Raise(p, "RuntimeError", ErrorText(body))
  ELSE /\ data' = [data EXCEPT ![p] = body]
       /\ pc' = [pc EXCEPT ![p] = "cache_set"]
       /\ UNCHANGED <<args, cached, now, ts, last>>

\* Request without resp.raise_for_status(): the body is decoded whatever the
\* status
Request_nostatus(p, resps) ==
  /\ pc[p] = "http"
  /\ LET got == SessionGet(resps)
     IN  /\ sent' = got
         /\ IF got.exc # "" THEN Raise(p, got.exc, "")
            ELSE LET dec == json_loads(got.resp.body)
                 IN  IF dec = JSONDecodeError
                     THEN Raise(p, "JSONDecodeError", "")
                     ELSE Classify(p, dec.doc)
  /\ UNCHANGED <<store, clock, ticks, retries>>

\* lines 115-128: SESSION.get with its retries, raise_for_status, resp.json()
\* and the classification of the body
Request(p, resps) ==
  /\ pc[p] = "http"
  /\ LET got == SessionGet(resps)
     IN  /\ sent' = got
         /\ IF got.exc # "" THEN Raise(p, got.exc, "")
            ELSE IF got.resp.status >= 400
                 THEN Raise(p, "HTTPError", "")
                 ELSE LET dec == json_loads(got.resp.body)
                      IN  IF dec = JSONDecodeError
                          THEN Raise(p, "JSONDecodeError", "")
                          ELSE Classify(p, dec.doc)
  /\ UNCHANGED <<store, clock, ticks, retries>>

\* cache_set evaluates int(time.time()) for the statement's arguments
SetReadClock(p) ==
  /\ pc[p] = "cache_set"
  /\ ts' = [ts EXCEPT ![p] = clock]
  /\ pc' = [pc EXCEPT ![p] = "replace"]
  /\ UNCHANGED <<store, clock, ticks, args, cached, now, data,
                 sent, retries, last>>

\* cache_set executes the REPLACE statement; the fetch returns data
SetReplace(p) ==
  /\ pc[p] = "replace"
  /\ store' = cache_set(store, args[p].function, args[p].symbol,
                        args[p].params_extra, data[p], ts[p])
  /\ Return(p, "refreshed", data[p])
  /\ UNCHANGED <<clock, ticks, sent, retries>>

\* the wall clock advances by d seconds
Advance(d) ==
  /\ ticks < MaxTicks
  /\ clock' = clock + d
  /\ ticks' = ticks + 1
  /\ UNCHANGED <<store, pc, args, cached, now, data, ts, sent,
                 retries, last>>

\* the wall clock advances
Tick == \E d \in TickDeltas : Advance(d)

\* the process ends, the calls in flight with it, and is started again: the
\* module is imported and _init_cache() runs on the database file as it is
Restart ==
  /\ store' = _init_cache(Database(TRUE, store)).rows
  /\ pc' = [p \in Procs |-> IF pc[p] = "idle" THEN "idle" ELSE "done"]
  /\ args' = [p \in Procs |-> NoArgs]
  /\ cached' = [p \in Procs |-> None]
  /\ now' = [p \in Procs |-> 0]
  /\ data' = [p \in Procs |-> <<>>]
  /\ ts' = [p \in Procs |-> 0]
  /\ sent' = NoRequest
  /\ last' = Restarted
  /\ UNCHANGED <<clock, ticks, retries>>

Next ==
  \/ \E p \in Procs, call \in Calls : Begin(p, call)
  \/ \E p \in Procs, symbol \in Symbols : get_income_statement(p, symbol)
  \/ \E p \in Procs, symbol \in Symbols : get_company_overview(p, symbol)
  \/ \E p \in Procs : CheckFresh(p)
  \/ \E p \in Procs, resps \in Providers : Request(p, resps)
  \/ \E p \in Procs : SetReadClock(p)
  \/ \E p \in Procs : SetReplace(p)
  \/ Tick
  \/ Restart

Spec == Init /\ [][Next]_vars

(***************************************************************************)
(* The fingerprint at work: fetches of one function and symbol under many   *)
(* parameter mappings, on a store that starts empty, the provider always    *)
(* answering with data.                                                     *)
(***************************************************************************)
\* the items the mappings are made of: a="1", a=1, a="1|b=2", b="2", _=""
ParamItems ==
  {<<(<<"a">>), StrVal(<<"1">>)>>,
   <<(<<"a">>), IntVal(<<"1">>)>>,
   <<(<<"a">>), StrVal(<<"1", "|", "b", "=", "2">>)>>,
   <<(<<"b">>), StrVal(<<"2">>)>>,
   <<(<<"_">>), StrVal(<<>>)>>}

\* params_extra as passed: None, {} and the dicts of one or two items with
\* distinct keys, in either insertion order
ParamSets ==
  {None, Dict(<<>>)}
  \cup {Dict(<<i>>) : i \in ParamItems}
  \cup {Dict(<<ij[1], ij[2]>>) :
          ij \in {x \in ParamItems \X ParamItems : x[1][1] # x[2][1]}}

ParamCalls == {Call("INCOME_STATEMENT", "TEL", ps, TRUE) : ps \in ParamSets}

DataProviders == {<<Ok(json_dumps(d))>> : d \in DataDocs}

ParamInit == Init /\ store = {}

ParamNext ==
  \/ \E p \in Procs, call \in ParamCalls : Begin(p, call)
  \/ \E p \in Procs : CheckFresh(p)
  \/ \E p \in Procs, resps \in DataProviders : Request(p, resps)
  \/ \E p \in Procs : SetReadClock(p)
  \/ \E p \in Procs : SetReplace(p)

ParamSpec == ParamInit /\ [][ParamNext]_vars

(***************************************************************************)
(* A first installation: the store starts empty, every entry in it is one   *)
(* that a fetch has written, and an entry can outlive its TTL.              *)
(***************************************************************************)
\* the clock advances as in Tick, or by a whole TTL
CleanDeltas == TickDeltas \cup {24 * 3600}

CleanNext ==
  \/ \E p \in Procs, call \in Calls : Begin(p, call)
  \/ \E p \in Procs : CheckFresh(p)
  \/ \E p \in Procs, resps \in Providers : Request(p, resps)
  \/ \E p \in Procs : SetReadClock(p)
  \/ \E p \in Procs : SetReplace(p)
  \/ \E d \in CleanDeltas : Advance(d)
  \/ Restart

CleanSpec == ParamInit /\ [][CleanNext]_vars

(***************************************************************************)
(* The request attempt by attempt: what urllib3 does under Retry(total=3)  *)
(* with each response as it comes, the provider free to fail every time.   *)
(***************************************************************************)
\* increment that arms the retries again once they are used up
increment_rearm(total) == IF total - 1 < 0 THEN RetryTotal ELSE total - 1

\* Retry.increment(): the retry about to be made is taken from total
increment(total) == total - 1

\* Retry.is_exhausted()
is_exhausted(total) == total < 0

\* what one attempt can meet
Responses == Failures \cup Answers

\* one attempt of SESSION.get and what follows from its response: a
\* retryable response is retried while the retries last and raised once
\* they are used up; any other response ends the request as in Request
Attempt(p, resp) ==
  /\ pc[p] = "http"
  /\ LET left == increment(retries[p])
         n == RetryTotal - retries[p] + 1
     IN  IF Retryable(resp) /\ ~is_exhausted(left)
         THEN /\ retries' = [retries EXCEPT ![p] = left]
              /\ UNCHANGED <<pc, args, cached, now, data, ts, sent, last>>
         ELSE /\ retries' = [retries EXCEPT ![p] = RetryTotal]
              /\ IF Retryable(resp)
                 THEN /\ sent' = [exc |-> IF resp.kind = "conn_error"
                                          THEN "ConnectionError"
                                          ELSE "RetryError",
                                  resp |-> resp, attempts |-> n]
                      /\ Raise(p, sent'.exc, "")
                 ELSE /\ sent' = [exc |-> "", resp |-> resp, attempts |-> n]
                      /\ IF resp.status >= 400
                         THEN Raise(p, "HTTPError", "")
                         ELSE LET dec == json_loads(resp.body)
                              IN  IF dec = JSONDecodeError
                                  THEN Raise(p, "JSONDecodeError", "")
                                  ELSE Classify(p, dec.doc)
  /\ UNCHANGED <<store, clock, ticks>>

\* the calls made: one key, with and without the stale fallback
LiveCalls ==
  {Call("INCOME_STATEMENT", "TEL", None, TRUE),
   Call("INCOME_STATEMENT", "TEL", None, FALSE)}

\* the steps a caller takes by itself once its call has begun
Proceed(p) ==
  \/ CheckFresh(p)
  \/ \E resp \in Responses : Attempt(p, resp)
  \/ SetReadClock(p)
  \/ SetReplace(p)

LiveNext ==
  \/ \E p \in Procs, call \in LiveCalls : Begin(p, call)
  \/ \E p \in Procs : Proceed(p)
  \/ Tick

\* a call that has begun goes on: its thread is scheduled, an attempt ends
\* with a response or at its timeout of 30 seconds, a backoff sleep ends
LiveSpec ==
  Init /\ [][LiveNext]_vars /\ \A p \in Procs : WF_vars(Proceed(p))

(***************************************************************************)
(* Vocabulary of the properties.                                           *)
(***************************************************************************)
\* the process is started again in this step
RestartStep == last' = Restarted /\ (last # Restarted \/ pc' # pc)

\* the steps of caller p, the process running on
BeginStep(p) == pc[p] = "idle" /\ pc'[p] = "now"
FreshStep(p) == pc[p] = "now" /\ pc'[p] # "now" /\ ~RestartStep
RequestStep(p) == pc[p] = "http" /\ pc'[p] # "http" /\ ~RestartStep
ReadClockStep(p) == pc[p] = "cache_set" /\ pc'[p] = "replace"
ReplaceStep(p) == pc[p] = "replace" /\ pc'[p] = "done" /\ ~RestartStep

\* what came back from a request: a transport failure (retries exhausted, a
\* status that raise_for_status rejects, a body that is not JSON), a
\* provider error document, or data
TransportFailed(g) ==
  g.exc # "" \/ g.resp.status >= 400 \/ g.resp.body = Garbled
SoftAnswer(g) ==
  g.exc = "" /\ g.resp.status = 200
  /\ \E d \in SoftDocs : g.resp.body = json_dumps(d)
DataAnswer(g) ==
  g.exc = "" /\ g.resp.status = 200
  /\ \E d \in DataDocs : g.resp.body = json_dumps(d)
AnswerDoc(g) ==
  CHOOSE d \in DataDocs \cup SoftDocs : g.resp.body = json_dumps(d)

TransportErrors == {"RetryError", "ConnectionError", "HTTPError", "JSONDecodeError"}

\* the entry cache_get hands out for payload d written at time t
Hit(d, t) == [isNone |-> FALSE, data |-> d, ts |-> t]

\* the key most calls are made for, and its row as found at start
MainCall == Call("INCOME_STATEMENT", "TEL", None, TRUE)
OldRow == Row("INCOME_STATEMENT", "TEL", <<"_">>, json_dumps(DocA), 0)

\* rows of the same primary key
SameKey(r1, r2) ==
  r1.function = r2.function /\ r1.symbol = r2.symbol
  /\ r1.params_hash = r2.params_hash

(***************************************************************************)
(* C1.  Fresh hit: a fetch whose key has a decodable row (P, ts) reads      *)
(* exactly P and ts from it, and when now - ts < ttl it returns P, sends no *)
(* request and leaves the store as it is.                                   *)
(***************************************************************************)
C1_FreshHit ==
  [][\A p \in Procs :
       /\ BeginStep(p) =>
            \A r \in KeyRows(store, args'[p]) : \A d \in DataDocs :
               r.response = json_dumps(d) => cached'[p] = Hit(d, r.timestamp)
       /\ (FreshStep(p) /\ ~cached[p].isNone
              /\ clock - cached[p].ts < TtlOf(args[p].function)) =>
            /\ pc'[p] = "done"
            /\ last' = Result(args[p], "fresh", cached[p].data, "")
            /\ sent' = sent
            /\ store' = store]_vars

\* a payload written in this run (DocB is in no row at start) served as a
\* fresh hit, no request having been sent since the fetch began
C1_Witness ==
  /\ last.outcome = "fresh"
  /\ last.ret = DocB
  /\ sent = NoRequest
  /\ \E r \in KeyRows(store, last.call) : r.response = json_dumps(DocB)

(***************************************************************************)
(* C2.  Stale fallback: a fetch that found an entry past its TTL, gets a    *)
(* provider error document and has allow_stale_on_limit set returns the     *)
(* payload it read, and the store (payload and timestamp of that entry      *)
(* included) is left as it is.                                              *)
(***************************************************************************)
C2_StaleFallback ==
  [][\A p \in Procs :
       (RequestStep(p) /\ SoftAnswer(sent') /\ ~cached[p].isNone
           /\ args[p].allow_stale_on_limit) =>
         /\ now[p] - cached[p].ts >= TtlOf(args[p].function)
         /\ last' = Result(args[p], "stale", cached[p].data, "")
         /\ store' = store]_vars

\* the row found at start, one TTL old, was returned after a provider error
\* and is still in place with its timestamp
C2_Witness ==
  /\ last.outcome = "stale"
  /\ last.call = MainCall
  /\ last.ret = DocA
  /\ SoftAnswer(sent)
  /\ store = {OldRow}
  /\ clock >= 24 * 3600

(***************************************************************************)
(* C3.  Provider error without a usable stale entry: the fetch raises       *)
(* RuntimeError and the store is left as it is.  As claimed, the error      *)
(* carries the value of a marker field of the response.                     *)
(***************************************************************************)
\* the values of the marker fields of a document
MarkerValues(doc) ==
  {doc[j][2] : j \in {i \in 1..Len(doc) :
                        doc[i][1] \in {"Information", "Note", "Error Message"}}}

C3_CarriesMarkerValue ==
  [][\A p \in Procs :
       (RequestStep(p) /\ SoftAnswer(sent')
           /\ (cached[p].isNone \/ ~args[p].allow_stale_on_limit)) =>
         /\ last'.outcome = "RuntimeError"
         /\ last'.err \in MarkerValues(AnswerDoc(sent'))
         /\ store' = store]_vars

\* The message the code raises for each provider error document: the first
\* non-empty value among Information, Note, Error Message in that order,
\* and "Unknown API error" when none is non-empty.
ExpectedMessage(doc) ==
  CASE doc = SoftNote -> "rate limit reached"
    [] doc = SoftBlank -> "Unknown API error"
    [] doc = SoftTwo -> "premium only"

\* C3 as amended: the error carries the first non-empty marker value in the
\* order Information, Note, Error Message, or "Unknown API error" when every
\* marker value is empty; the store is left as it is.
C3_SoftErrorRaises ==
  [][\A p \in Procs :
       (RequestStep(p) /\ SoftAnswer(sent')
           /\ (cached[p].isNone \/ ~args[p].allow_stale_on_limit)) =>
         /\ last' = Result(args[p], "RuntimeError", <<>>,
                           ExpectedMessage(AnswerDoc(sent')))
         /\ store' = store]_vars

\* a provider error whose marker is empty was raised with the fixed text,
\* by a fetch that had an entry but no leave to use it
C3_Witness ==
  /\ last.outcome = "RuntimeError"
  /\ last.err = "Unknown API error"
  /\ ~last.call.allow_stale_on_limit
  /\ sent.resp.body = json_dumps(SoftBlank)
  /\ store = {OldRow}

(***************************************************************************)
(* C4.  Transport failure: when the request fails (retries exhausted, a     *)
(* status that is not retried, a body that does not decode) the fetch       *)
(* raises, returns no payload - the stale one included - and the store is   *)
(* left as it is.                                                           *)
(***************************************************************************)
C4_HardFailure ==
  [][\A p \in Procs :
       (RequestStep(p) /\ TransportFailed(sent')) =>
         /\ last'.call = args[p]
         /\ last'.outcome \in TransportErrors
         /\ last'.ret = <<>>
         /\ store' = store]_vars

\* a fetch of the key whose row is one TTL old failed in the transport, and
\* the row is still in place
C4_Witness ==
  /\ last.outcome \in TransportErrors
  /\ last.call = MainCall
  /\ store = {OldRow}
  /\ clock >= 24 * 3600

(***************************************************************************)
(* C5.  Write only after Success: the store changes only in the REPLACE of  *)
(* a fetch, only in the rows of that fetch's key, and a fetch gets to       *)
(* cache_set only from a request answered with data; a provider error, a    *)
(* transport failure or a malformed body ends the fetch with the store as   *)
(* it was.                                                                  *)
(***************************************************************************)
C5_WriteOnlyAfterSuccess ==
  [][/\ store' # store =>
          \E p \in Procs :
             /\ ReplaceStep(p)
             /\ data[p] \in DataDocs
             /\ store' \ KeyRows(store', args[p]) = store \ KeyRows(store, args[p])
     /\ \A p \in Procs :
          /\ (pc'[p] = "cache_set" /\ pc[p] # "cache_set") =>
               RequestStep(p) /\ DataAnswer(sent') /\ data'[p] = AnswerDoc(sent')
          /\ (pc'[p] = "replace" /\ pc[p] # "replace") =>
               ReadClockStep(p) /\ data'[p] = data[p]
          /\ (RequestStep(p) /\ ~DataAnswer(sent')) =>
               pc'[p] = "done" /\ store' = store]_vars

\* a fetch ended in a provider error on an empty key and nothing was written
C5_Witness ==
  /\ last.outcome = "RuntimeError"
  /\ SoftAnswer(sent)
  /\ KeyRows(store, last.call) = {}
  /\ \A p \in Procs : pc[p] = "done"

(***************************************************************************)
(* C6.  Refresh on miss or expiry: a fetch without a fresh entry whose      *)
(* request is answered with data D goes on to cache_set, returns D, and     *)
(* its REPLACE leaves for the key exactly one row, which decodes to D and   *)
(* whose timestamp is not earlier than the fetch's own `now` and is fresh   *)
(* from that second on for one TTL.                                         *)
(***************************************************************************)
C6_Refresh ==
  [][\A p \in Procs :
       /\ (RequestStep(p) /\ DataAnswer(sent')) =>
            pc'[p] = "cache_set" /\ data'[p] = AnswerDoc(sent')
       /\ ReplaceStep(p) =>
            /\ last' = Result(args[p], "refreshed", data[p], "")
            /\ ts[p] >= now[p]
            /\ \E r \in store' : KeyRows(store', args[p]) = {r}
            /\ cache_get(store', args[p].function, args[p].symbol,
                         args[p].params_extra) = Hit(data[p], ts[p])
            /\ \A t \in {ts[p], ts[p] + TtlOf(args[p].function) - 1} :
                 IsFresh(Hit(data[p], ts[p]), t, TtlOf(args[p].function))]_vars

\* the row found at start had expired and was replaced by the new payload
C6_Witness ==
  /\ last.outcome = "refreshed"
  /\ last.call = MainCall
  /\ last.ret = DocB
  /\ \E r \in store : /\ KeyRows(store, last.call) = {r}
                      /\ r.response = json_dumps(DocB)
                      /\ r.timestamp >= 24 * 3600

(***************************************************************************)
(* C7.  Upsert uniqueness: the store never holds two rows of the same       *)
(* (function, symbol, params_hash), also when two fetches both miss and     *)
(* both write; after a REPLACE the key's only row carries the payload and   *)
(* the timestamp of that write.                                             *)
(***************************************************************************)
UniqueKeys(rows) == \A r1, r2 \in rows : SameKey(r1, r2) => r1 = r2

C7_UpsertUnique ==
  [][/\ UniqueKeys(store) /\ UniqueKeys(store')
     /\ \A p \in Procs :
          ReplaceStep(p) =>
            KeyRows(store', args[p]) =
              {Row(args[p].function, args[p].symbol,
                   _params_hash(OrEmpty(args[p].params_extra)),
                   json_dumps(data[p]), ts[p])}]_vars

\* two overlapping fetches wrote the same key: the request sent last was
\* answered with DocB, the fetch that ended last wrote DocA, both are done,
\* and the one row left is the second write's
C7_Witness ==
  /\ \A p \in Procs : pc[p] = "done"
  /\ last = Result(MainCall, "refreshed", DocA, "")
  /\ sent.resp = Ok(json_dumps(DocB))
  /\ store = {Row("INCOME_STATEMENT", "TEL", <<"_">>, json_dumps(DocA), 1)}

(***************************************************************************)
(* C8.  Timestamp monotonicity: across the writes of one key the stored     *)
(* timestamp never decreases, under any interleaving of the fetches, the    *)
(* clock never going back.                                                  *)
(***************************************************************************)
C8_TimestampMonotone ==
  [][\A r1 \in store : \A r2 \in store' :
       SameKey(r1, r2) => r2.timestamp >= r1.timestamp]_vars

(***************************************************************************)
(* C9.  No eviction: a key that has a row has one in every later state,     *)
(* whatever the fetches do, and the clock moving on changes no row.         *)
(***************************************************************************)
C9_NoEviction ==
  [][/\ \A r1 \in store : \E r2 \in store' : SameKey(r1, r2)
     /\ clock' # clock => store' = store]_vars

\* the row found at start is one TTL old and still there, after a fetch of
\* another key wrote its own row and a fetch of this key met a provider
\* error
C9_Witness ==
  /\ clock >= 24 * 3600
  /\ OldRow \in store
  /\ store # {OldRow}
  /\ last.call = MainCall
  /\ last.outcome = "stale"

(***************************************************************************)
(* C10.  Bounded retry.  As claimed: a fetch issues at most 3 HTTP          *)
(* attempts.                                                                *)
(***************************************************************************)
C10_AtMostThreeAttempts ==
  [][\A p \in Procs :
       RequestStep(p) =>
         /\ sent'.attempts \in 1..3
         /\ sent'.resp = Status(503) =>
              /\ sent'.attempts = 3
              /\ sent'.exc = "RetryError"
              /\ last' = Result(args[p], "RetryError", <<>>, "")
              /\ store' = store]_vars

\* C10 as amended: a fetch issues at most 4 HTTP attempts, the first and 3
\* retries; a request whose last attempt met 503 has made all 4 and raised
\* RetryError, and the fetch then fails with it and writes nothing.
C10_BoundedRetry ==
  [][\A p \in Procs :
       RequestStep(p) =>
         /\ sent'.attempts \in 1..4
         /\ sent'.resp = Status(503) =>
              /\ sent'.attempts = 4
              /\ sent'.exc = "RetryError"
              /\ last' = Result(args[p], "RetryError", <<>>, "")
              /\ pc'[p] = "done"
              /\ store' = store]_vars

\* four attempts met 503 and the fetch failed; nothing was written
C10_Witness ==
  /\ sent.attempts = 4
  /\ sent.resp = Status(503)
  /\ last.outcome = "RetryError"
  /\ store = {}

\* two values of params_extra that are the same mapping: the same items,
\* whatever the order they were inserted in
SameMapping(P1, P2) ==
  {OrEmpty(P1)[i] : i \in 1..Len(OrEmpty(P1))}
    = {OrEmpty(P2)[i] : i \in 1..Len(OrEmpty(P2))}

\* caller p starts a fetch of the function and symbol of the fetch that has
\* just written its payload
BeginAfterWrite(p) ==
  /\ BeginStep(p)
  /\ last.outcome = "refreshed"
  /\ args'[p].function = last.call.function
  /\ args'[p].symbol = last.call.symbol

\* a=1, b=2 inserted in this order and in the other
ParamAB == Dict(<<<<(<<"a">>), StrVal(<<"1">>)>>, <<(<<"b">>), StrVal(<<"2">>)>>>>)
ParamBA == Dict(<<<<(<<"b">>), StrVal(<<"2">>)>>, <<(<<"a">>), StrVal(<<"1">>)>>>>)

(***************************************************************************)
(* C11.  Thin wrappers: a call of get_income_statement(symbol) is the call  *)
(* _cached_api_call("INCOME_STATEMENT", symbol) and a call of               *)
(* get_company_overview(symbol) is the call _cached_api_call("OVERVIEW",    *)
(* symbol): the caller enters the cached fetch with that function tag, the  *)
(* symbol, no extra parameters and the stale fallback allowed, and the      *)
(* cache is read for that key.                                              *)
(***************************************************************************)
C11_ThinWrappers ==
  [][\A p \in Procs : \A symbol \in Symbols :
       /\ get_income_statement(p, symbol) =>
            /\ pc'[p] = "now"
            /\ args'[p] = Call("INCOME_STATEMENT", symbol, None, TRUE)
            /\ cached'[p] = cache_get(store, "INCOME_STATEMENT", symbol, None)
       /\ get_company_overview(p, symbol) =>
            /\ pc'[p] = "now"
            /\ args'[p] = Call("OVERVIEW", symbol, None, TRUE)
            /\ cached'[p] = cache_get(store, "OVERVIEW", symbol, None)]_vars

(***************************************************************************)
(* C12.  Fingerprint order-independence: a fetch whose parameters are the   *)
(* same key/value pairs as those of the fetch that has just written, in     *)
(* whatever insertion order, addresses the same cache entry: it reads the   *)
(* row that fetch wrote.                                                    *)
(***************************************************************************)
C12_OrderIndependent ==
  [][\A p \in Procs :
       (BeginAfterWrite(p)
           /\ SameMapping(args'[p].params_extra, last.call.params_extra)) =>
         /\ _params_hash(OrEmpty(args'[p].params_extra))
              = _params_hash(OrEmpty(last.call.params_extra))
         /\ \E r \in store :
              /\ KeyRows(store, last.call) = {r}
              /\ KeyRows(store, args'[p]) = {r}
              /\ cached'[p] = Hit(last.ret, r.timestamp)]_vars

\* the fetch with a=1, b=2 has written its payload, and on this store the
\* lookup with b=2, a=1 finds that row
C12_Witness ==
  /\ last = Result(Call("INCOME_STATEMENT", "TEL", ParamAB, TRUE),
                   "refreshed", DocB, "")
  /\ \E p \in Procs : pc[p] = "idle"
  /\ \E r \in store :
       /\ r.response = json_dumps(DocB)
       /\ KeyRows(store, Call("INCOME_STATEMENT", "TEL", ParamBA, TRUE)) = {r}
       /\ cache_get(store, "INCOME_STATEMENT", "TEL", ParamBA)
            = Hit(DocB, r.timestamp)

(***************************************************************************)
(* C13.  Fingerprint disambiguation: for the same function and symbol two   *)
(* different parameter mappings have different fingerprints, so a fetch     *)
(* under one mapping does not read the entry written under another: on a    *)
(* store that started empty, the fetch that follows a write under a         *)
(* different mapping finds no entry.                                        *)
(***************************************************************************)
C13_Disambiguates ==
  [][\A p \in Procs :
       (BeginAfterWrite(p)
           /\ ~SameMapping(args'[p].params_extra, last.call.params_extra)) =>
         /\ _params_hash(OrEmpty(args'[p].params_extra))
              # _params_hash(OrEmpty(last.call.params_extra))
         /\ KeyRows(store, args'[p]) = {}
         /\ cached'[p].isNone]_vars

\* caller p is inside _cached_api_call
InFlight(p) == pc[p] \in {"now", "http", "cache_set", "replace"}

\* the outcomes that hand the caller a payload
PayloadOutcomes == {"fresh", "stale", "refreshed"}

\* _cached_api_call of caller p returns a payload in this step
ReturnStep(p) ==
  /\ InFlight(p)
  /\ pc'[p] = "done"
  /\ last'.outcome \in PayloadOutcomes

(***************************************************************************)
(* C14.  Returned payloads are legitimate: a payload _cached_api_call       *)
(* returns is (i) the payload the fetch read from the store, within its     *)
(* TTL, no request having been sent, or (ii) the data answer to this        *)
(* fetch's own request, written to the store, or (iii) the payload the      *)
(* fetch read from the store, returned after this fetch's request was       *)
(* answered with a provider error document and with allow_stale_on_limit    *)
(* set.  What a fetch holds as cached is what a row of its key decoded to,  *)
(* and what it holds as data is the body of its request; a provider error   *)
(* document is never returned.                                              *)
(***************************************************************************)
C14_LegitimatePayloads ==
  [][\A p \in Procs :
       /\ ReturnStep(p) =>
            /\ last'.call = args[p]
            /\ ~_is_limit_or_error(last'.ret)
            /\ \/ /\ last'.outcome = "fresh"
                  /\ pc[p] = "now"
                  /\ ~cached[p].isNone
                  /\ last'.ret = cached[p].data
                  /\ clock - cached[p].ts < TtlOf(args[p].function)
                  /\ sent' = sent
               \/ /\ last'.outcome = "refreshed"
                  /\ pc[p] = "replace"
                  /\ last'.ret = data[p]
                  /\ \E r \in KeyRows(store', args[p]) :
                       r.response = json_dumps(data[p])
               \/ /\ last'.outcome = "stale"
                  /\ pc[p] = "http"
                  /\ SoftAnswer(sent')
                  /\ args[p].allow_stale_on_limit
                  /\ ~cached[p].isNone
                  /\ last'.ret = cached[p].data
       /\ (BeginStep(p) /\ ~cached'[p].isNone) =>
            \E r \in KeyRows(store, args'[p]) :
              /\ json_loads(r.response) = [isNone |-> FALSE, doc |-> cached'[p].data]
              /\ r.timestamp = cached'[p].ts
       /\ (InFlight(p) /\ pc'[p] \in {"http", "cache_set", "replace"}) =>
            /\ cached'[p] = cached[p]
            /\ args'[p] = args[p]
       /\ (pc[p] = "http" /\ pc'[p] = "cache_set") =>
            DataAnswer(sent') /\ data'[p] = AnswerDoc(sent')
       /\ (pc[p] = "cache_set" /\ pc'[p] = "replace") => data'[p] = data[p]]_vars

\* the row found at start, one TTL old, was returned by the fetch whose
\* request was answered with a provider error document of three markers
C14_Witness ==
  /\ last = Result(MainCall, "stale", DocA, "")
  /\ sent.resp = Ok(json_dumps(SoftTwo))
  /\ clock = 24 * 3600
  /\ OldRow \in store

(***************************************************************************)
(* C15.  Failure only when unrecoverable: a fetch with allow_stale_on_limit *)
(* set fails only with a transport error, or with the provider's error when *)
(* there is no stale fallback: at the moment it raises RuntimeError the     *)
(* store holds no decodable entry for its key, under any interleaving of    *)
(* the fetches.                                                             *)
(***************************************************************************)
C15_FailsOnlyWithoutFallback ==
  [][\A p \in Procs :
       (InFlight(p) /\ pc'[p] = "done" /\ last'.call = args[p]
           /\ last'.outcome \notin PayloadOutcomes
           /\ args[p].allow_stale_on_limit) =>
         /\ last'.outcome \in TransportErrors \cup {"RuntimeError"}
         /\ last'.outcome = "RuntimeError" =>
              cache_get(store, args[p].function, args[p].symbol,
                        args[p].params_extra).isNone]_vars

(***************************************************************************)
(* C16.  Non-retryable status: when the provider answers the first attempt  *)
(* with a client-error status that is not in status_forcelist (404), the    *)
(* request is not retried - one attempt is made, also when a second would   *)
(* have been answered with data - the fetch raises HTTPError at once and    *)
(* the store is left as it is.                                              *)
(***************************************************************************)
C16_NotRetried ==
  [][\A p \in Procs :
       (RequestStep(p) /\ sent'.resp = Status(404)) =>
         /\ 404 \notin status_forcelist
         /\ sent'.attempts = 1
         /\ sent'.exc = ""
         /\ pc'[p] = "done"
         /\ last' = Result(args[p], "HTTPError", <<>>, "")
         /\ store' = store]_vars

\* a fetch of the key whose row is one TTL old met 404 on its one attempt
\* and raised; the row is as it was
C16_Witness ==
  /\ sent = [exc |-> "", resp |-> Status(404), attempts |-> 1]
  /\ last = Result(MainCall, "HTTPError", <<>>, "")
  /\ store = {OldRow}
  /\ clock = 24 * 3600

\* the key of call a has a row whose text does not decode
CorruptKey(rows, a) ==
  \E r \in KeyRows(rows, a) : json_loads(r.response) = JSONDecodeError

CorruptRow == Row("INCOME_STATEMENT", "TEL", <<"_">>, Garbled, 0)

C18_TtlBoundary ==
  [][\A p \in Procs :
       (FreshStep(p) /\ ~cached[p].isNone) =>
         /\ clock - cached[p].ts <= 86399 =>
              /\ last' = Result(args[p], "fresh", cached[p].data, "")
              /\ pc'[p] = "done"
              /\ sent' = sent
         /\ clock - cached[p].ts >= 86400 =>
              /\ pc'[p] = "http"
              /\ now'[p] = clock
              /\ last' = last]_vars

\* an entry of a function without a TTL entry, written at second 1, was
\* served at second 86400, 86399 seconds old, without a request
C18_Witness ==
  /\ last = Result(Call("EARNINGS", "TEL", None, TRUE), "fresh", DocB, "")
  /\ sent = NoRequest
  /\ clock = 24 * 3600
  /\ Row("EARNINGS", "TEL", <<"_">>, json_dumps(DocB), 1) \in store

(***************************************************************************)
(* C19.  Idempotent, durable initialization: _init_cache run at a process   *)
(* start on a database that has the table and rows leaves every row (key,   *)
(* payload, timestamp) as it is, running it once more changes nothing, and  *)
(* cache_get returns after the restart what it returned before, for every   *)
(* key.                                                                     *)
(***************************************************************************)
C19_InitIdempotent ==
  [][RestartStep =>
       /\ store' = store
       /\ _init_cache(Database(TRUE, store')) = Database(TRUE, store')
       /\ \A c \in Calls :
            cache_get(store', c.function, c.symbol, c.params_extra)
              = cache_get(store, c.function, c.symbol, c.params_extra)]_vars

\* the process has just been restarted: the row written before the restart
\* is there and cache_get returns it
C19_Witness ==
  /\ last = Restarted
  /\ \A p \in Procs : pc[p] \in {"idle", "done"}
  /\ \E p \in Procs : pc[p] = "done"
  /\ store = {Row("INCOME_STATEMENT", "TEL", <<"_">>, json_dumps(DocB), 1)}
  /\ cache_get(store, "INCOME_STATEMENT", "TEL", None) = Hit(DocB, 1)

(***************************************************************************)
(* C20.  Empty-parameter sentinel: a fetch without extra parameters         *)
(* (params_extra None or {}) files its row under the fingerprint "_", which *)
(* is not the empty string; a fetch with one or more parameters never       *)
(* files its row under "_", and of two fetches, one with and one without    *)
(* parameters, neither reads the other's row.                               *)
(***************************************************************************)
C20_Sentinel ==
  [][\A p \in Procs :
       /\ ReplaceStep(p) =>
            \E r \in store' :
              /\ KeyRows(store', args[p]) = {r}
              /\ r.response = json_dumps(data[p])
              /\ r.params_hash # <<>>
              /\ (r.params_hash = <<"_">>) <=> (OrEmpty(args[p].params_extra) = <<>>)
       /\ (BeginAfterWrite(p)
             /\ (OrEmpty(args'[p].params_extra) = <<>>)
                  # (OrEmpty(last.call.params_extra) = <<>>)) =>
            cached'[p].isNone]_vars

\* a fetch without parameters and a fetch with the one parameter _="" have
\* both written: their rows are filed under "_" and "_=" and are two rows
C20_Witness ==
  /\ \A p \in Procs : pc[p] = "done"
  /\ Cardinality(store) = 2
  /\ \E r1 \in store, r2 \in store :
       /\ r1.params_hash = <<"_">>
       /\ r2.params_hash = <<"_", "=">>

(***************************************************************************)
(* C21.  Termination: a fetch that has begun eventually ends, and it ends   *)
(* in exactly one of four ways: with the cached payload served fresh, with  *)
(* the provider's data stored and returned, with the cached payload served  *)
(* stale after a provider error, or with an exception raised.  Whatever the *)
(* provider answers, each retried attempt uses up one of the three retries, *)
(* and a retryable failure met when none is left ends the fetch with        *)
(* RetryError or ConnectionError after four attempts.                       *)
(***************************************************************************)
C21_Terminates ==
  /\ \A p \in Procs : InFlight(p) ~> (pc[p] = "done")
  /\ [][\A p \in Procs :
          /\ (InFlight(p) /\ pc'[p] = "done") =>
               /\ last'.call = args[p]
               /\ \/ /\ last'.outcome = "fresh"
                     /\ pc[p] = "now"
                     /\ last'.ret = cached[p].data
                  \/ /\ last'.outcome = "refreshed"
                     /\ pc[p] = "replace"
                     /\ last'.ret = data[p]
                     /\ ~_is_limit_or_error(data[p])
                  \/ /\ last'.outcome = "stale"
                     /\ pc[p] = "http"
                     /\ last'.ret = cached[p].data
                     /\ SoftAnswer(sent')
                  \/ /\ last'.outcome \in TransportErrors \cup {"RuntimeError"}
                     /\ pc[p] = "http"
                     /\ last'.ret = <<>>
               /\ last'.outcome \in PayloadOutcomes => last'.err = ""
          /\ (pc[p] = "http" /\ pc'[p] = "http" /\ retries'[p] # retries[p]) =>
               /\ retries'[p] = retries[p] - 1
               /\ retries'[p] >= 0
          /\ (pc[p] = "http" /\ pc'[p] = "done"
                /\ sent'.exc \in {"RetryError", "ConnectionError"}) =>
               /\ retries[p] = 0
               /\ sent'.attempts = RetryTotal + 1
               /\ Retryable(sent'.resp)
               /\ last'.outcome = sent'.exc]_vars

\* a provider that never answered: the fetch made its four attempts, each
\* meeting a refused connection, and has ended with ConnectionError
C21_Witness ==
  /\ \E p \in Procs : pc[p] = "done"
  /\ \A p \in Procs : retries[p] = RetryTotal
  /\ sent.attempts = RetryTotal + 1
  /\ sent.resp = ConnError
  /\ last = Result(Call("INCOME_STATEMENT", "TEL", None, FALSE),
                   "ConnectionError", <<>>, "")

\* a document without a marker key at its top level
NoMarker(doc) ==
  \A j \in 1..Len(doc) : doc[j][1] \notin {"Information", "Note", "Error Message"}

(***************************************************************************)
(* C22.  Clean cache: the store having started empty, every row's text      *)
(* decodes to a document without "Information", "Note" or "Error Message"   *)
(* at its top level; so does every entry a fetch holds from cache_get, and  *)
(* every payload a fetch has returned, fresh, stale or refreshed.           *)
(***************************************************************************)
C22_CleanCache ==
  /\ \A r \in store :
       LET dec == json_loads(r.response)
       IN  dec # JSONDecodeError /\ NoMarker(dec.doc)
  /\ \A p \in Procs : ~cached[p].isNone => NoMarker(cached[p].data)
  /\ last.outcome \in PayloadOutcomes => NoMarker(last.ret)

\* a row written a day ago, the provider answering with "Information": "",
\* and the row's payload served stale
C22_Witness ==
  /\ sent.resp = Ok(json_dumps(SoftBlank))
  /\ clock > 24 * 3600
  /\ \E d \in DataDocs :
       /\ last = Result(MainCall, "stale", d, "")
       /\ store = {Row("INCOME_STATEMENT", "TEL", <<"_">>, json_dumps(d), 1)}

\* the key a call's entry is filed under, and the key of a row
KeyOf(a) == <<a.function, a.symbol, _params_hash(OrEmpty(a.params_extra))>>
RowKey(r) == <<r.function, r.symbol, r.params_hash>>

\* caller p takes a step of a fetch, the process running on
FetchStep(p) == pc'[p] # pc[p] /\ ~RestartStep

(***************************************************************************)
(* C23.  Key isolation: in every step of a fetch the rows filed under any   *)
(* other key (another function, symbol or parameter fingerprint) stay as    *)
(* they are, payload and timestamp; what the fetch reads from the store is  *)
(* what it would read were its own key's rows the only ones; and the row it *)
(* writes is filed under its own key.                                       *)
(***************************************************************************)
C23_KeyIsolation ==
  [][\A p \in Procs :
       FetchStep(p) =>
         LET a == IF pc[p] = "idle" THEN args'[p] ELSE args[p]
             own == {r \in store : RowKey(r) = KeyOf(a)}
         IN  /\ {r \in store' : RowKey(r) # KeyOf(a)}
                  = {r \in store : RowKey(r) # KeyOf(a)}
             /\ BeginStep(p) =>
                  cached'[p] = cache_get(own, a.function, a.symbol, a.params_extra)
             /\ ReplaceStep(p) =>
                  \E r \in store' : /\ RowKey(r) = KeyOf(a)
                                    /\ store' \ {r} = store \ own]_vars

\* beside the row of TEL found at the start, a fetch for ST has written its
\* own a day later; the row of TEL is as it was
C23_Witness ==
  /\ last = Result(Call("INCOME_STATEMENT", "ST", None, TRUE), "refreshed", DocB, "")
  /\ store = {OldRow,
              Row("INCOME_STATEMENT", "ST", <<"_">>, json_dumps(DocB), 24 * 3600)}

====
